---- MODULE Spec2Model ----
(***************************************************************************)
(* Model of itensor/index.h: class Index (identity, prime-level algebra,   *)
(* comparison and ordering, binary codec), class IndexVal and the free     *)
(* function templates prime / noprime / mapPrime / dag.                    *)
(*                                                                         *)
(* The program state is a pair of Index variables, i and j, of a client    *)
(* program, the build mode (DEBUG defined or not), whether a fatal Error   *)
(* has been signalled, and the binary stream of the codec.  Every member   *)
(* function is an operator on Index records that returns the new object    *)
(* and whether Error(...) was called; every action applies one operation   *)
(* of the header to the variables.                                         *)
(***************************************************************************)
EXTENDS Integers, Sequences, FiniteSets, TLC

VARIABLES
    debug,      \* TRUE iff the build defines DEBUG (fixed at start)
    objs,       \* the client's Index variables: name -> Index object
    orig,       \* history: for each variable, the construction its value derives from
    halted,     \* "" while running, else the call that signalled Error (fatal)
    last,       \* the free function call, comparison or codec call just made
                \* (op "other" after any other step): [op, args, inc, res]
    stream,     \* the binary stream: a sequence of integer fields
    written     \* history: the Index values written to the stream and not yet read

vars == <<debug, objs, orig, halted, last, stream, written>>

----------------------------------------------------------------------------
(* Bounds of the model *)

MaxId == 1          \* generateID() draws from 0..MaxId
MaxM == 2           \* bond dimensions 1..MaxM
MaxLev == 1         \* prime levels are kept <= MaxLev
MaxStream == 2      \* at most MaxStream Index values are in the stream

----------------------------------------------------------------------------
(* Data *)

\* enum IndexType { Link, Site, All, NullIndex, Xind, Yind, Zind, Wind, Vind }
IndexType == {"Link", "Site", "All", "NullIndex", "Xind", "Yind", "Zind", "Wind", "Vind"}

\* ordinal of an enumerator, as the codec stores it
TypeOrd(t) ==
    CASE t = "Link" -> 0
      [] t = "Site" -> 1
      [] t = "All" -> 2
      [] t = "NullIndex" -> 3
      [] t = "Xind" -> 4
      [] t = "Yind" -> 5
      [] t = "Zind" -> 6
      [] t = "Wind" -> 7
      [] t = "Vind" -> 8

TypeOfOrd(n) == CHOOSE t \in IndexType : TypeOrd(t) = n

\* the IndexType values the client passes (Xind..Vind behave like Link and Site)
InputTypes == {"Link", "Site", "All", "NullIndex"}

\* the client's Index variables
Vars == {"i", "j"}

\* the operands of the ordering harness
CmpVars == {"a", "b", "c"}

\* names, as sequences of byte codes: "", "i", "ij"; the prime mark of name()
Names == {<<>>, <<105>>, <<105, 106>>}
PrimeMark == 39

\* the name the client of Spec gives its Index
ClientNames == {<<105>>}

Ids == 0..MaxId
Dims == 1..MaxM
\* prime levels: one negative level stands for every negative level
Levels == (0 - 1)..MaxLev
Incs == (0 - (MaxLev + 1))..(MaxLev + 1)
\* the initial prime levels the client passes to the constructor
CtorLevels == {0, 1}
Arrows == {"In", "Out"}

\* the private fields of class Index
MkIndex(id, plev, m, type, name) ==
    [id |-> id, primelevel |-> plev, m |-> m, type |-> type, sname |-> name]

\* the result of a member function: the object afterwards, and whether Error was called
Ret(I, e) == [idx |-> I, err |-> e]

----------------------------------------------------------------------------
(* class Index *)

\* Index::generateID(): rng() of a mt19937 seeded with time + pid: any value
generateID == Ids

\* Index::Index()
Index_default == MkIndex(0, 0, 1, "NullIndex", <<>>)

\* Index::Index(name, m, type, plev), id being the value generateID() returned
Index_ctor(name, m, type, plev, id, dbg) ==
    Ret(MkIndex(id, plev, m, type, name),
        dbg /\ (type = "All" \/ type = "NullIndex"))

\* a copy that draws a new id instead of keeping the original's
Index_copy_fresh(I) == [I EXCEPT !.id = (I.id + 1) % (MaxId + 1)]

\* the implicit copy constructor / copy assignment
Index_copy(I) == I

\* accessors
Index_m(I) == I.m
Index_primeLevel(I) == I.primelevel
Index_type(I) == I.type
Index_rawname(I) == I.sname
Index_id(I) == I.id

\* Index::name(): the name decorated with one prime mark per prime level
Index_name(I) ==
    I.sname \o [k \in 1..(IF I.primelevel > 0 THEN I.primelevel ELSE 0) |-> PrimeMark]

\* a null test on the id instead of the type
Index_bool_byid(I) == I.id # 0

\* explicit operator bool()
Index_bool(I) == I.type # "NullIndex"

\* explicit operator int() / operator long()
Index_long(I) == Index_m(I)

\* dir() const, dir(Arrow) const, dag()
Index_dir(I) == "Out"
Index_dir_set(I, ndir) == I
Index_dag(I) == I

\* Index::primeLevel(int plev)
Index_primeLevel_set(I, plev) == Ret([I EXCEPT !.primelevel = plev], FALSE)

\* prime(int) whose debug check rejects a resulting level of 0 as well
Index_prime_int_offbyone(I, inc, dbg) ==
    LET J == [I EXCEPT !.primelevel = I.primelevel + inc]
    IN  Ret(J, dbg /\ J.primelevel <= 0)

\* Index::prime(int inc)
Index_prime_int(I, inc, dbg) ==
    LET J == [I EXCEPT !.primelevel = I.primelevel + inc]
    IN  Ret(J, dbg /\ J.primelevel < 0)

\* Index::prime(IndexType type, int inc)
Index_prime_type(I, type, inc, dbg) ==
    IF type = Index_type(I) \/ type = "All"
    THEN LET J == [I EXCEPT !.primelevel = I.primelevel + inc]
         IN  Ret(J, dbg /\ J.primelevel < 0)
    ELSE Ret(I, FALSE)

\* noprime with the sign of the increment slipped: prime(type, primelevel_)
Index_noprime_signslip(I, type, dbg) == Index_prime_type(I, type, I.primelevel, dbg)

\* Index::noprime(IndexType type)
Index_noprime(I, type, dbg) == Index_prime_type(I, type, 0 - I.primelevel, dbg)

\* Index::mapprime(int plevold, int plevnew, IndexType type)
Index_mapprime(I, plevold, plevnew, type) ==
    IF I.primelevel = plevold /\ (type = "All" \/ type = Index_type(I))
    THEN Ret([I EXCEPT !.primelevel = plevnew], FALSE)
    ELSE Ret(I, FALSE)

\* Index::operator==
Index_eq(I, other) == (I.id = other.id) /\ (I.primelevel = other.primelevel)

\* Index::operator!=
Index_ne(I, other) == ~Index_eq(I, other)

\* Index::noprimeEquals
Index_noprimeEquals(I, other) == I.id = other.id

\* Index::operator>
Index_gt(I, other) ==
    IF I.m = other.m
    THEN IF I.id = other.id
         THEN I.primelevel > other.primelevel
         ELSE I.id > other.id
    ELSE I.m > other.m

\* operator< comparing the id before the dimension
Index_lt_idfirst(I, other) ==
    IF I.id = other.id
    THEN IF I.m = other.m
         THEN I.primelevel < other.primelevel
         ELSE I.m < other.m
    ELSE I.id < other.id

\* Index::operator<
Index_lt(I, other) ==
    IF I.m = other.m
    THEN IF I.id = other.id
         THEN I.primelevel < other.primelevel
         ELSE I.id < other.id
    ELSE I.m < other.m

----------------------------------------------------------------------------
(* class IndexVal *)

\* IndexVal::IndexVal(const Index& index, long val_)
IndexVal_ctor(I, v) == [index |-> Index_copy(I), val |-> v]

\* Index::operator()(long val)
Index_call(I, v) == IndexVal_ctor(I, v)

\* IndexVal::prime(type,inc) delegating to index.prime(inc), the type dropped
IndexVal_prime_type_ungated(iv, type, inc, dbg) ==
    LET r == Index_prime_int(iv.index, inc, dbg)
    IN  Ret([iv EXCEPT !.index = r.idx], r.err)

\* IndexVal::prime(IndexType type, int inc): delegates to index.prime(type,inc)
IndexVal_prime_type(iv, type, inc, dbg) ==
    LET r == Index_prime_type(iv.index, type, inc, dbg)
    IN  Ret([iv EXCEPT !.index = r.idx], r.err)

----------------------------------------------------------------------------
(* Free function templates: the argument I is passed by value *)

\* T prime(T I, int inc) { I.prime(inc); return I; }
prime_int(I, inc, dbg) == Index_prime_int(Index_copy(I), inc, dbg)

\* T prime(T I, IndexType type, int inc) { I.prime(type,inc); return I; }
prime_type(I, type, inc, dbg) == Index_prime_type(Index_copy(I), type, inc, dbg)

\* T noprime(T I, IndexType type) { I.noprime(type); return I; }
noprime(I, type, dbg) == Index_noprime(Index_copy(I), type, dbg)

\* mapPrime passing plevnew and plevold in the wrong order
mapPrime_swapped(I, plevold, plevnew, type) ==
    Index_mapprime(Index_copy(I), plevnew, plevold, type)

\* T mapPrime(T I, int plevold, int plevnew, IndexType type)
mapPrime(I, plevold, plevnew, type) ==
    Index_mapprime(Index_copy(I), plevold, plevnew, type)

\* Index dag(Index res) { res.dag(); return res; }
dag(res) == Index_dag(Index_copy(res))

----------------------------------------------------------------------------
(* Binary codec *)

\* Index::write: appends id, primeLevel, m, type ordinal, name length, name
Index_write(s, I) ==
    s \o <<I.id, I.primelevel, I.m, TypeOrd(I.type), Len(I.sname)>> \o I.sname

\* read taking the prime level before the id
Index_read_swapped(s) ==
    LET n == s[5]
    IN  [idx  |-> MkIndex(s[2], s[1], s[3], TypeOfOrd(s[4]), SubSeq(s, 6, 5 + n)),
         rest |-> SubSeq(s, 6 + n, Len(s))]

\* Index::read: parses the fields in the same order; rest is the unread stream
Index_read(s) ==
    LET n == s[5]
    IN  [idx  |-> MkIndex(s[1], s[2], s[3], TypeOfOrd(s[4]), SubSeq(s, 6, 5 + n)),
         rest |-> SubSeq(s, 6 + n, Len(s))]


----------------------------------------------------------------------------
(* State *)

\* what a variable's value derives from: the fields fixed at construction,
\* and whether the construction was the named constructor
Origin(I, named) ==
    [id |-> I.id, m |-> I.m, type |-> I.type, sname |-> I.sname, named |-> named]

\* a call the client observes: its name, the variables it names (target
\* first), the increment of a free prime(I,inc), the result of a comparison
Op(op, args, res) == [op |-> op, args |-> args, inc |-> 0, res |-> res]

Init ==
    /\ debug \in BOOLEAN
    /\ objs = [v \in Vars |-> Index_default]
    /\ orig = [v \in Vars |-> Origin(Index_default, FALSE)]
    /\ halted = ""
    /\ last = Op("start", <<>>, FALSE)
    /\ stream = <<>>
    /\ written = <<>>

\* a member function called on variable d, with result r: the object is
\* updated in place, also when the function then calls Error
Member(op, d, r) ==
    /\ halted = ""
    /\ r.idx.primelevel \in Levels
    /\ objs' = [objs EXCEPT ![d] = r.idx]
    /\ halted' = IF r.err THEN op ELSE ""
    /\ last' = Op("other", <<>>, FALSE)
    /\ UNCHANGED <<debug, orig, stream, written>>

\* a free function taking its argument by reference: s is modified as well
Free_byref(op, d, s, inc, r) ==
    /\ halted = ""
    /\ r.idx.primelevel \in Levels
    /\ objs' = IF r.err THEN [objs EXCEPT ![s] = r.idx]
               ELSE [objs EXCEPT ![d] = r.idx, ![s] = r.idx]
    /\ orig' = IF r.err THEN orig ELSE [orig EXCEPT ![d] = orig[s]]
    /\ halted' = IF r.err THEN op ELSE ""
    /\ last' = [Op(op, <<d, s>>, FALSE) EXCEPT !.inc = inc]
    /\ UNCHANGED <<debug, stream, written>>

\* d = f(s, ...) for a free function f with result r: f works on its own copy
\* of s, and nothing is assigned when f calls Error (inc: the increment of
\* prime(I,inc), 0 for the other functions)
Free(op, d, s, inc, r) ==
    /\ halted = ""
    /\ r.idx.primelevel \in Levels
    /\ objs' = IF r.err THEN objs ELSE [objs EXCEPT ![d] = r.idx]
    /\ orig' = IF r.err THEN orig ELSE [orig EXCEPT ![d] = orig[s]]
    /\ halted' = IF r.err THEN op ELSE ""
    /\ last' = [Op(op, <<d, s>>, FALSE) EXCEPT !.inc = inc]
    /\ UNCHANGED <<debug, stream, written>>

\* d = Index();
DefaultCtor(d) ==
    /\ halted = ""
    /\ objs' = [objs EXCEPT ![d] = Index_default]
    /\ orig' = [orig EXCEPT ![d] = Origin(Index_default, FALSE)]
    /\ last' = Op("other", <<>>, FALSE)
    /\ UNCHANGED <<debug, halted, stream, written>>

\* d = Index(name, m, type, plev);
Ctor(d, name, m, type, plev) ==
    /\ halted = ""
    /\ \E id \in generateID :
         LET r == Index_ctor(name, m, type, plev, id, debug)
         IN  /\ objs' = IF r.err THEN objs ELSE [objs EXCEPT ![d] = r.idx]
             /\ orig' = IF r.err THEN orig
                        ELSE [orig EXCEPT ![d] = Origin(r.idx, TRUE)]
             /\ halted' = IF r.err THEN "Index(name,m,type,plev)" ELSE ""
    /\ last' = Op("other", <<>>, FALSE)
    /\ UNCHANGED <<debug, stream, written>>

\* d = s;
Copy(d, s) ==
    /\ halted = ""
    /\ objs' = [objs EXCEPT ![d] = Index_copy(objs[s])]
    /\ orig' = [orig EXCEPT ![d] = orig[s]]
    /\ last' = Op("other", <<>>, FALSE)
    /\ UNCHANGED <<debug, halted, stream, written>>

\* d.primeLevel(plev);
MemberPrimeLevel(d, plev) ==
    Member("primeLevel(plev)", d, Index_primeLevel_set(objs[d], plev))

\* d.prime(inc);
MemberPrime(d, inc) ==
    Member("prime(inc)", d, Index_prime_int(objs[d], inc, debug))

\* d.prime(type, inc);
MemberPrimeType(d, type, inc) ==
    Member("prime(type,inc)", d, Index_prime_type(objs[d], type, inc, debug))

\* d.noprime(type);
MemberNoprime(d, type) ==
    Member("noprime(type)", d, Index_noprime(objs[d], type, debug))

\* d.mapprime(plevold, plevnew, type);
MemberMapprime(d, plevold, plevnew, type) ==
    Member("mapprime", d, Index_mapprime(objs[d], plevold, plevnew, type))

\* d.dag();
MemberDag(d) == Member("dag()", d, Ret(Index_dag(objs[d]), FALSE))

\* d.dir(ndir);
MemberDir(d, ndir) == Member("dir(ndir)", d, Ret(Index_dir_set(objs[d], ndir), FALSE))

\* d = prime(s, inc);
FreePrime(d, s, inc) ==
    Free("prime(I,inc)", d, s, inc, prime_int(objs[s], inc, debug))

\* d = prime(s, type, inc);
FreePrimeType(d, s, type, inc) ==
    Free("prime(I,type,inc)", d, s, 0, prime_type(objs[s], type, inc, debug))

\* d = noprime(s, type);
FreeNoprime(d, s, type) == Free("noprime(I,type)", d, s, 0, noprime(objs[s], type, debug))

\* d = mapPrime(s, plevold, plevnew, type);
FreeMapPrime(d, s, plevold, plevnew, type) ==
    Free("mapPrime", d, s, 0, mapPrime(objs[s], plevold, plevnew, type))

\* d = dag(s);
FreeDag(d, s) == Free("dag(I)", d, s, 0, Ret(dag(objs[s]), FALSE))

\* d = s(v).prime(type, inc).index;
ValPrimeType(d, s, v, type, inc) ==
    LET r == IndexVal_prime_type(Index_call(objs[s], v), type, inc, debug)
    IN  Free("IndexVal::prime(type,inc)", d, s, 0, Ret(r.idx.index, r.err))

\* the free functions are called as  j = f(i, ...)
Next ==
    \/ \E d \in Vars : DefaultCtor(d)
    \/ \E d \in Vars, name \in ClientNames, m \in Dims, type \in InputTypes,
          plev \in CtorLevels :
         Ctor(d, name, m, type, plev)
    \/ \E d \in Vars : \E s \in Vars \ {d} : Copy(d, s)
    \/ \E d \in Vars, plev \in Levels : MemberPrimeLevel(d, plev)
    \/ \E d \in Vars, inc \in Incs : MemberPrime(d, inc)
    \/ \E d \in Vars, type \in InputTypes, inc \in Incs : MemberPrimeType(d, type, inc)
    \/ \E d \in Vars, type \in InputTypes : MemberNoprime(d, type)
    \/ \E d \in Vars, plevold, plevnew \in Levels, type \in InputTypes :
         MemberMapprime(d, plevold, plevnew, type)
    \/ \E d \in Vars : MemberDag(d)
    \/ \E d \in Vars, ndir \in Arrows : MemberDir(d, ndir)
    \/ \E d \in {"j"}, s \in {"i"}, inc \in Incs : FreePrime(d, s, inc)
    \/ \E d \in {"j"}, s \in {"i"}, type \in InputTypes, inc \in Incs :
         FreePrimeType(d, s, type, inc)
    \/ \E d \in {"j"}, s \in {"i"}, type \in InputTypes : FreeNoprime(d, s, type)
    \/ \E d \in {"j"}, s \in {"i"}, plevold, plevnew \in Levels, type \in InputTypes :
         FreeMapPrime(d, s, plevold, plevnew, type)
    \/ \E d \in {"j"}, s \in {"i"} : FreeDag(d, s)
    \/ \E d \in {"j"}, s \in {"i"}, type \in InputTypes, inc \in Incs :
         ValPrimeType(d, s, objs[s].m, type, inc)

Spec == Init /\ [][Next]_vars

----------------------------------------------------------------------------
(* The ordering harness: three Index values a, b, c as the named constructor
   builds them (type Link, any id, dimension and prime level), compared *)

CmpValues ==
    {MkIndex(id, plev, m, "Link", <<105>>) : id \in Ids, plev \in 0..MaxLev, m \in Dims}

Rels == {"==", "!=", "noprimeEquals", ">", "<"}

\* the comparison  s rel t  is evaluated, once per run of the harness
Compare(rel, s, t) ==
    /\ halted = ""
    /\ last.op = "start"
    /\ last' = Op(rel, <<s, t>>,
                  CASE rel = "==" -> Index_eq(objs[s], objs[t])
                    [] rel = "!=" -> Index_ne(objs[s], objs[t])
                    [] rel = "noprimeEquals" -> Index_noprimeEquals(objs[s], objs[t])
                    [] rel = ">" -> Index_gt(objs[s], objs[t])
                    [] rel = "<" -> Index_lt(objs[s], objs[t]))
    /\ UNCHANGED <<debug, objs, orig, halted, stream, written>>

InitCmp ==
    /\ debug = FALSE
    /\ objs \in [CmpVars -> CmpValues]
    /\ orig = [v \in CmpVars |-> Origin(objs[v], TRUE)]
    /\ halted = ""
    /\ last = Op("start", <<>>, FALSE)
    /\ stream = <<>>
    /\ written = <<>>

NextCmp == \E rel \in Rels, s, t \in CmpVars : Compare(rel, s, t)

SpecCmp == InitCmp /\ [][NextCmp]_vars

----------------------------------------------------------------------------
(* The codec harness: i holds a valid Index, j a default one; the variables
   are written to the stream and read back from it *)

CodecValues ==
    {MkIndex(id, plev, m, type, name) :
        id \in Ids, plev \in 0..MaxLev, m \in Dims, type \in {"Link", "Site"},
        name \in Names}

\* s.write(stream);
Write(s) ==
    /\ halted = ""
    /\ Len(written) < MaxStream
    /\ stream' = Index_write(stream, objs[s])
    /\ written' = Append(written, [val |-> objs[s], org |-> orig[s]])
    /\ last' = Op("write", <<s>>, FALSE)
    /\ UNCHANGED <<debug, objs, orig, halted>>

\* d.read(stream);
Read(d) ==
    /\ halted = ""
    /\ written # <<>>
    /\ LET r == Index_read(stream)
       IN  /\ objs' = [objs EXCEPT ![d] = r.idx]
           /\ stream' = r.rest
    /\ orig' = [orig EXCEPT ![d] = Head(written).org]
    /\ written' = Tail(written)
    /\ last' = Op("read", <<d>>, FALSE)
    /\ UNCHANGED <<debug, halted>>

InitCodec ==
    /\ debug \in BOOLEAN
    /\ \E x \in CodecValues :
         /\ objs = [v \in Vars |-> IF v = "i" THEN x ELSE Index_default]
         /\ orig = [v \in Vars |-> IF v = "i" THEN Origin(x, TRUE)
                                   ELSE Origin(Index_default, FALSE)]
    /\ halted = ""
    /\ last = Op("start", <<>>, FALSE)
    /\ stream = <<>>
    /\ written = <<>>

NextCodec ==
    \/ \E s \in Vars : Write(s)
    \/ \E d \in Vars : Read(d)

SpecCodec == InitCodec /\ [][NextCodec]_vars

----------------------------------------------------------------------------
(* Properties *)

\* the variable the observed call assigned or was called on, and its argument
Target == last.args[1]
Source == last.args[2]

FreeOps ==
    {"prime(I,inc)", "prime(I,type,inc)", "noprime(I,type)", "mapPrime", "dag(I)",
     "IndexVal::prime(type,inc)"}

\* the lexicographic order on (m, id, primeLevel)
Lex(a, b) ==
    \/ a.m < b.m
    \/ a.m = b.m /\ a.id < b.id
    \/ a.m = b.m /\ a.id = b.id /\ a.primelevel < b.primelevel

Triple(a) == <<a.m, a.id, a.primelevel>>

\* C1: operator< is the strict lexicographic order on (m, id, primeLevel):
\* a < b iff Lex(a, b); it is irreflexive, asymmetric and transitive, any two
\* values with distinct triples are comparable, operator> is its converse,
\* and the comparison the harness evaluated returned that order.
StrictLexOrder ==
    /\ \A s, t \in DOMAIN objs :
         LET a == objs[s]
             b == objs[t]
         IN  /\ Index_lt(a, b) <=> Lex(a, b)
             /\ Index_gt(a, b) <=> Lex(b, a)
             /\ ~Index_lt(a, a)
             /\ Index_lt(a, b) => ~Index_lt(b, a)
             /\ Triple(a) # Triple(b) => Index_lt(a, b) \/ Index_lt(b, a)
    /\ \A s, t, u \in DOMAIN objs :
         Index_lt(objs[s], objs[t]) /\ Index_lt(objs[t], objs[u])
             => Index_lt(objs[s], objs[u])
    /\ last.op = "<" => last.res = Lex(objs[Target], objs[Source])
    /\ last.op = ">" => last.res = Lex(objs[Source], objs[Target])

\* a < b was evaluated to true, with a < b decided by the prime level, b < c
\* by the id and a < c by transitivity, c having the larger dimension than none
StrictLexOrderWitness ==
    /\ last.op = "<" /\ last.args = <<"a", "b">> /\ last.res
    /\ objs["a"].m = objs["b"].m /\ objs["a"].id = objs["b"].id
    /\ objs["b"].m = objs["c"].m /\ objs["b"].id < objs["c"].id
    /\ objs["b"].primelevel > objs["c"].primelevel
    /\ Index_lt(objs["a"], objs["c"])

\* C2: every variable still has the id, m, type and rawname of the
\* construction its value derives from, whatever copies and prime-level
\* operations were applied, and two values that derive from the same
\* construction satisfy noprimeEquals.
IdNeverChanges ==
    /\ \A v \in Vars : Origin(objs[v], orig[v].named) = orig[v]
    /\ \A v, w \in Vars :
         orig[v] = orig[w] =>
             /\ Index_noprimeEquals(objs[v], objs[w])
             /\ Index_id(objs[v]) = Index_id(objs[w])

\* i and j derive from one named construction and were moved to different
\* prime levels
IdNeverChangesWitness ==
    /\ orig["i"].named /\ orig["i"] = orig["j"]
    /\ objs["i"].id = 1 /\ objs["j"].id = 1
    /\ objs["i"].primelevel # objs["j"].primelevel

\* C3: a step changes at most one variable, the one it assigns or is called
\* on, and a free function leaves its argument as it was, so every other copy
\* keeps its value; and d = prime(s, inc) with inc # 0 that returns gives d the level of
\* s plus inc, the id and m of s, d == s false and s.noprimeEquals(d) true.
CopyIndependence ==
    [][/\ \A v, w \in Vars : v # w => (objs'[v] = objs[v] \/ objs'[w] = objs[w])
       /\ last'.op \in FreeOps => objs'[last'.args[2]] = objs[last'.args[2]]
       /\ (last'.op = "prime(I,inc)" /\ halted' = "" /\ last'.inc # 0) =>
            LET d == objs'[last'.args[1]]
                s == objs[last'.args[2]]
            IN  /\ Index_primeLevel(d) = Index_primeLevel(s) + last'.inc
                /\ Index_id(d) = Index_id(s)
                /\ Index_m(d) = Index_m(s)
                /\ ~Index_eq(s, d)
                /\ Index_noprimeEquals(s, d)
                /\ objs'[last'.args[2]] = s]_vars

\* j = prime(i, inc) returned for a named i and inc # 0
CopyIndependenceWitness ==
    /\ last.op = "prime(I,inc)" /\ last.args = <<"j", "i">> /\ last.inc # 0
    /\ halted = "" /\ orig["i"].named
    /\ objs["j"].primelevel = objs["i"].primelevel + last.inc
    /\ ~Index_eq(objs["i"], objs["j"])
    /\ Index_noprimeEquals(objs["i"], objs["j"])

\* what the codec accepts: a named Index of a real type at a level >= 0
ValidIndex(x) == Index_bool(x) /\ x.type # "All" /\ x.primelevel >= 0 /\ x.m >= 1

\* C4: reading back what write wrote for a valid Index x gives y with y == x,
\* y.noprimeEquals(x) and the name(), m() and type() of x; write appends the
\* fields in the order id, primeLevel, m, type, name length, name.
CodecRoundTrip ==
    [][/\ last'.op = "read" =>
            LET x == Head(written).val
                y == objs'[last'.args[1]]
            IN  ValidIndex(x) =>
                  /\ Index_eq(y, x)
                  /\ Index_noprimeEquals(y, x)
                  /\ Index_name(y) = Index_name(x)
                  /\ Index_rawname(y) = Index_rawname(x)
                  /\ Index_m(y) = Index_m(x)
                  /\ Index_type(y) = Index_type(x)
       /\ last'.op = "write" =>
            LET x == objs[last'.args[1]]
                n == Len(stream)
            IN  /\ Len(stream') = n + 5 + Len(x.sname)
                /\ SubSeq(stream', 1, n) = stream
                /\ stream'[n + 1] = x.id
                /\ stream'[n + 2] = x.primelevel
                /\ stream'[n + 3] = x.m
                /\ stream'[n + 4] = TypeOrd(x.type)
                /\ stream'[n + 5] = Len(x.sname)
                /\ SubSeq(stream', n + 6, Len(stream')) = x.sname]_vars

\* j, default at the start, was read back from what i wrote, and equals i:
\* a primed Index with a two-character name, another record still unread
CodecRoundTripWitness ==
    /\ last.op = "read" /\ last.args = <<"j">>
    /\ objs["j"] = objs["i"]
    /\ ValidIndex(objs["j"])
    /\ objs["j"].primelevel > 0 /\ Len(objs["j"].sname) = 2 /\ objs["j"].id # 0
    /\ Len(written) = 1

\* C5: mapprime(a, b, T) sets the level to b when the level is a and T is All
\* or the Index's type, and leaves the Index unchanged in every other case;
\* mapPrime(I, a, b, T) returns a copy that obeys the same rule; neither
\* signals an error.
MapprimeExact ==
    \A v \in Vars, a, b \in Levels, T \in InputTypes :
        LET I == objs[v]
            hit == I.primelevel = a /\ (T = "All" \/ T = I.type)
            want == IF hit THEN MkIndex(I.id, b, I.m, I.type, I.sname) ELSE I
        IN  /\ Index_mapprime(I, a, b, T) = Ret(want, FALSE)
            /\ mapPrime(I, a, b, T) = Ret(want, FALSE)
            /\ halted \notin {"mapprime", "mapPrime"}

\* j = mapPrime(i, a, b) moved the level of a named Index: j differs from i
MapprimeExactWitness ==
    /\ last.op = "mapPrime" /\ last.args = <<"j", "i">>
    /\ orig["i"].named /\ orig["j"] = orig["i"]
    /\ objs["i"].primelevel = 1 /\ objs["j"].primelevel = 0

\* C6: prime(T, inc) adds inc to the level when T is the Index's type or All,
\* and changes nothing when the type differs from T and T # All; so do
\* IndexVal::prime(T, inc) on the wrapped Index and the free prime(I, T, inc).
TypeGatedPrime ==
    \A v \in Vars, T \in InputTypes, inc \in Incs :
        LET I == objs[v]
            match == T = I.type \/ T = "All"
            want == IF match
                    THEN MkIndex(I.id, I.primelevel + inc, I.m, I.type, I.sname)
                    ELSE I
            r == Index_prime_type(I, T, inc, debug)
            f == prime_type(I, T, inc, debug)
            iv == IndexVal_prime_type(Index_call(I, I.m), T, inc, debug)
        IN  /\ r.idx = want
            /\ f.idx = want
            /\ iv.idx = [index |-> want, val |-> I.m]
            /\ ~match => ~r.err /\ ~f.err /\ ~iv.err

\* j = i(v).prime(T, inc).index raised the level of a Link Index
TypeGatedPrimeWitness ==
    /\ last.op = "IndexVal::prime(type,inc)" /\ last.args = <<"j", "i">>
    /\ objs["i"].type = "Link" /\ orig["i"].named
    /\ objs["j"].primelevel > objs["i"].primelevel

\* C7: noprime(T) is prime(T, -primeLevel()): the level afterwards is 0 when T
\* is All or the Index's type and unchanged otherwise, no error is signalled,
\* id, m, type and name are kept, and applying it twice equals applying it once.
NoprimeResets ==
    \A v \in Vars, T \in InputTypes :
        LET I == objs[v]
            match == T = I.type \/ T = "All"
            want == IF match THEN MkIndex(I.id, 0, I.m, I.type, I.sname) ELSE I
            r == Index_noprime(I, T, debug)
        IN  /\ r = Ret(want, FALSE)
            /\ noprime(I, T, debug) = Ret(want, FALSE)
            /\ Index_noprime(r.idx, T, debug) = r
            /\ halted \notin {"noprime(type)", "noprime(I,type)"}

\* j = noprime(i) reset the level of a primed named Index
NoprimeResetsWitness ==
    /\ last.op = "noprime(I,type)" /\ last.args = <<"j", "i">>
    /\ orig["i"].named /\ orig["j"] = orig["i"]
    /\ objs["i"].primelevel # 0 /\ objs["j"].primelevel = 0

\* C8: prime(inc) adds inc to the level in every case; a debug build signals
\* the fatal error exactly when the resulting level is negative, a release
\* build never signals it and keeps the negative level.
PrimeIncChecked ==
    /\ \A v \in Vars, inc \in Incs :
         LET I == objs[v]
             r == Index_prime_int(I, inc, debug)
         IN  /\ r.idx = MkIndex(I.id, I.primelevel + inc, I.m, I.type, I.sname)
             /\ r.err <=> (debug /\ I.primelevel + inc < 0)
    /\ halted = "prime(inc)" => debug /\ \E v \in Vars : objs[v].primelevel < 0

\* a debug build stopped in i.prime(inc) with the level driven negative
PrimeIncCheckedWitness ==
    /\ debug /\ halted = "prime(inc)"
    /\ objs["i"].primelevel < 0 /\ objs["j"].primelevel >= 0
    /\ orig["i"].named

\* C9 as stated: a default-constructed Index has id 0, type NullIndex, m 1 and
\* boolean value false, and every Index built by the named constructor has
\* boolean value true.
NullSentinelAsStated ==
    \A v \in Vars :
        /\ ~orig[v].named =>
             /\ objs[v].id = 0 /\ objs[v].type = "NullIndex" /\ objs[v].m = 1
             /\ ~Index_bool(objs[v])
        /\ orig[v].named => Index_bool(objs[v])

\* C9, amended: a default-constructed Index has id 0, type NullIndex, m 1,
\* level 0 and boolean value false; an Index built by the named constructor
\* with a type other than NullIndex has boolean value true (a debug build
\* builds no other); copies and prime-level operations keep the boolean value.
NullSentinel ==
    /\ \A v \in Vars :
         /\ ~orig[v].named =>
              /\ objs[v].id = 0 /\ objs[v].type = "NullIndex" /\ objs[v].m = 1
              /\ ~Index_bool(objs[v])
         /\ (orig[v].named /\ orig[v].type # "NullIndex") => Index_bool(objs[v])
         /\ (orig[v].named /\ debug) => Index_bool(objs[v])
         /\ Index_bool(objs[v]) <=> (orig[v].type # "NullIndex")
    /\ Index_default = MkIndex(0, 0, 1, "NullIndex", <<>>)
    /\ ~Index_bool(Index_default)

\* i was built by the named constructor, drew the id 0 and was primed, and is
\* true; j is default-constructed and false
NullSentinelWitness ==
    /\ orig["i"].named /\ Index_bool(objs["i"]) /\ objs["i"].id = 0
    /\ objs["i"].primelevel # 0
    /\ ~orig["j"].named /\ ~Index_bool(objs["j"])

\* C10 as stated: for any two Index values exactly one of a < b, a == b, a > b
\* holds, and a > b iff b < a.
Trichotomy ==
    \A v, w \in Vars :
        LET a == objs[v]
            b == objs[w]
            lt == Index_lt(a, b)
            eq == Index_eq(a, b)
            gt == Index_gt(a, b)
        IN  /\ \/ lt /\ ~eq /\ ~gt
               \/ ~lt /\ eq /\ ~gt
               \/ ~lt /\ ~eq /\ gt
            /\ gt <=> Index_lt(b, a)

====
